---- MODULE Spec2Model ----
(***************************************************************************)
(* The CSV -> Region -> RegionCollection -> RegionCollectionView pipeline  *)
(* of Unit1/Task1.  The repository holds two variants of the classes:      *)
(*   "assign" : src/Unit1/Task1/soc-opt-class.js (lines 15-129), whose     *)
(*              default options spell the key `seprator` and whose         *)
(*              CSV.from merges with Object.assign(options, DEFAULTS);     *)
(*   "spread" : src/unnamed/part_000 (lines 25-146), whose defaults spell  *)
(*              `separator` and whose CSV.from merges with object spread.  *)
(* Region, RegionCollection and the view behave alike in both.             *)
(*                                                                         *)
(* JavaScript strings are sequences of one-character strings.  JavaScript  *)
(* numbers are the records Num(n), NegZero, NaN, PosInf, NegInf; a code    *)
(* unit TLA+ cannot write in a string is named by its code point, as in    *)
(* "U+000B".  `undefined` is the value Undefined.                          *)
(***************************************************************************)
EXTENDS Integers, Sequences, FiniteSets

VARIABLES pc,        \* position of the driving script
          impl,      \* which variant of the classes is loaded
          csv,       \* CSV instance: this.csv
          options,   \* CSV instance: this.options
          table,     \* CSV.parse(): the table #makeTable() built
          parsed,    \* value returned by CSV.parse()
          regions,   \* RegionCollection: this.regions
          before,    \* this.regions as it was when the last pop() or sort started
          lastOp,    \* the last RegionCollection method called
          prevOp,    \* the method called before that
          maxLog,    \* values maxDensity() returned since the last mutation
          printOpts, \* the options the last print() ran with
          output,    \* lines handed to console.log by print()
          raised,    \* TRUE once a call has thrown
          relRef,    \* argument of the last densityRelativeTo()
          relOut,    \* value returned by the last densityRelativeTo()
          call       \* how the CSV instance was made: constructor or from, and its options argument

vars == <<pc, impl, csv, options, table, parsed, regions, before, lastOp, prevOp,
          maxLog, printOpts, output, raised, relRef, relOut, call>>

----------------------------------------------------------------------------
(* Bounds of the model.                                                    *)

MaxLen == 4         \* longest CSV text given to new CSV / CSV.from
MaxBody == 5        \* longest text after the header row, in the pipeline
MaxRegions == 3     \* most regions in a collection built directly
MaxViewRegions == 2 \* most regions in a collection handed to the view
MaxAbs == 8         \* densities and reference values range over -MaxAbs..MaxAbs

----------------------------------------------------------------------------
(* JavaScript values.                                                      *)

Undefined == <<"undefined">>

\* A number: its kind t, its value v (the sign, for an infinity) and its
\* sign bit neg, which tells the two zeros +0 and -0 apart.
Num(n) == [t |-> "int", v |-> n, neg |-> n < 0]
NegZero == [t |-> "int", v |-> 0, neg |-> TRUE]
NaN == [t |-> "nan", v |-> 0, neg |-> FALSE]
PosInf == [t |-> "inf", v |-> 1, neg |-> FALSE]
NegInf == [t |-> "inf", v |-> -1, neg |-> TRUE]

IsInt(x) == x.t = "int"
IsNaN(x) == x.t = "nan"
IsInf(x) == x.t = "inf"

Sign(n) == IF n > 0 THEN 1 ELSE IF n < 0 THEN -1 ELSE 0
Abs(n) == IF n < 0 THEN -n ELSE n

\* The sign of a number as a comparison with 0 sees it: 0 for either zero
NumSign(x) == IF IsInt(x) THEN Sign(x.v) ELSE x.v

\* The sign bit of a number, which a product and a quotient multiply:
\* -1 for a negative number, for -0 and for -Infinity
SignBit(x) == IF x.neg THEN -1 ELSE 1

\* the zero and the infinity of sign s
Zero(s) == IF s < 0 THEN NegZero ELSE Num(0)
Inf(s) == IF s < 0 THEN NegInf ELSE PosInf

\* floor(p / q) for q # 0
FloorDiv(p, q) == IF q > 0 THEN p \div q ELSE (-p) \div (-q)

\* Math.floor of the exact quotient p / q, in the place of Math.round
RoundFloor(p, q) == FloorDiv(p, q)

\* Math.round of the exact quotient p / q: floor(p/q + 1/2), so a tie
\* goes towards +Infinity.
MathRound(p, q) == FloorDiv(2 * p + q, 2 * q)

\* x - y on numbers; a difference of 0 is -0 only for (-0) - (+0)
Minus(x, y) ==
  IF IsNaN(x) \/ IsNaN(y) THEN NaN
  ELSE IF IsInf(x) THEN (IF IsInf(y) /\ y.v = x.v THEN NaN ELSE x)
  ELSE IF IsInf(y) THEN Inf(-y.v)
  ELSE IF x.v = y.v THEN (IF x = NegZero /\ y = Num(0) THEN NegZero ELSE Num(0))
  ELSE Num(x.v - y.v)

\* Math.max(a, b) folded over the arguments, starting from -Infinity;
\* +0 counts as larger than -0
Max2(x, y) ==
  IF IsNaN(x) \/ IsNaN(y) THEN NaN
  ELSE IF IsInf(x) THEN (IF x.v = 1 THEN x ELSE y)
  ELSE IF IsInf(y) THEN (IF y.v = 1 THEN y ELSE x)
  ELSE IF y.v > x.v THEN y
  ELSE IF y.v = x.v /\ x.neg /\ ~y.neg THEN y
  ELSE x

RECURSIVE MathMax(_)
MathMax(xs) ==
  IF xs = <<>> THEN NegInf ELSE Max2(MathMax(SubSeq(xs, 1, Len(xs) - 1)), xs[Len(xs)])

----------------------------------------------------------------------------
(* Strings.                                                                *)

Digits == <<"0", "1", "2", "3", "4", "5", "6", "7", "8", "9">>
DigitChars == {Digits[i] : i \in 1..10}
DigitVal(c) == (CHOOSE i \in 1..10 : Digits[i] = c) - 1
\* StrWhiteSpaceChar: the white space and the line terminators parseInt
\* skips
WhiteSpace ==
  {"\t", "\n", "U+000B", "\f", "\r", " ", "U+00A0", "U+1680",
   "U+2000", "U+2001", "U+2002", "U+2003", "U+2004", "U+2005", "U+2006",
   "U+2007", "U+2008", "U+2009", "U+200A", "U+2028", "U+2029", "U+202F",
   "U+205F", "U+3000", "U+FEFF"}

\* the string made of n copies of the character c
Repeat(c, n) == [i \in 1..n |-> c]

\* a padStart that cuts a longer string down to width
PadStartCut(s, width) ==
  IF Len(s) >= width THEN SubSeq(s, 1, width) ELSE Repeat(" ", width - Len(s)) \o s

\* String.prototype.padStart(width) / padEnd(width): pad with spaces up
\* to width; a string already that long is returned as it is.
PadStart(s, width) ==
  IF Len(s) >= width THEN s ELSE Repeat(" ", width - Len(s)) \o s
PadEnd(s, width) ==
  IF Len(s) >= width THEN s ELSE s \o Repeat(" ", width - Len(s))

\* decimal digits of n >= 0
RECURSIVE NatToString(_)
NatToString(n) ==
  IF n < 10 THEN <<Digits[n + 1]>> ELSE Append(NatToString(n \div 10), Digits[(n % 10) + 1])

\* Number.prototype.toString(); both zeros print as "0"
NumToString(x) ==
  IF IsNaN(x) THEN <<"N", "a", "N">>
  ELSE IF IsInf(x) THEN
    (IF x.v = 1 THEN <<"I", "n", "f", "i", "n", "i", "t", "y">>
     ELSE <<"-", "I", "n", "f", "i", "n", "i", "t", "y">>)
  ELSE IF x.v < 0 THEN <<"-">> \o NatToString(-x.v)
  ELSE NatToString(x.v)

\* TRUE iff sep occurs in s at position p
MatchAt(s, sep, p) ==
  /\ p + Len(sep) - 1 <= Len(s)
  /\ \A k \in 1..Len(sep) : s[p + k - 1] = sep[k]

Contains(s, sep) == \E p \in 1..Len(s) : MatchAt(s, sep, p)

\* the first position from p on where sep occurs in s, 0 when there is none
FirstMatch(s, sep, p) ==
  IF \E q \in p..Len(s) : MatchAt(s, sep, q)
  THEN CHOOSE q \in p..Len(s) : MatchAt(s, sep, q) /\ \A k \in p..(q - 1) : ~MatchAt(s, sep, k)
  ELSE 0

\* String.prototype.split(sep) for a non-empty sep: scan from the left,
\* cut at each occurrence, resume right after it.
RECURSIVE SplitFrom(_, _, _)
SplitFrom(s, sep, p) ==
  LET q == FirstMatch(s, sep, p)
  IN IF q = 0 THEN <<SubSeq(s, p, Len(s))>>
     ELSE <<SubSeq(s, p, q - 1)>> \o SplitFrom(s, sep, q + Len(sep))

\* split(undefined) returns the whole string as the only element;
\* split("") returns the characters.
Split(s, sep) ==
  IF sep = Undefined THEN <<s>>
  ELSE IF sep = <<>> THEN [i \in 1..Len(s) |-> <<s[i]>>]
  ELSE SplitFrom(s, sep, 1)

\* Array.prototype.join(sep) on strings
RECURSIVE Join(_, _)
Join(parts, sep) ==
  IF parts = <<>> THEN <<>>
  ELSE IF Len(parts) = 1 THEN parts[1]
  ELSE parts[1] \o sep \o Join(Tail(parts), sep)

\* parseInt(s, 10): skip leading white space, take an optional sign, then
\* the longest run of digits; no digit gives NaN, and the sign times a
\* run of value 0 gives -0 after a "-".  parseInt(undefined) parses the
\* text "undefined", which gives NaN.
RECURSIVE SkipWhite(_)
SkipWhite(s) == IF s # <<>> /\ s[1] \in WhiteSpace THEN SkipWhite(Tail(s)) ELSE s

RECURSIVE DigitRun(_, _)
DigitRun(s, acc) ==
  IF s # <<>> /\ s[1] \in DigitChars THEN DigitRun(Tail(s), 10 * acc + DigitVal(s[1])) ELSE acc

ParseInt(s) ==
  IF s = Undefined THEN NaN
  ELSE LET t == SkipWhite(s)
           neg == t # <<>> /\ t[1] = "-"
           u == IF t # <<>> /\ t[1] \in {"-", "+"} THEN Tail(t) ELSE t
       IN IF u = <<>> \/ u[1] \notin DigitChars THEN NaN
          ELSE LET n == DigitRun(u, 0)
               IN IF n = 0 THEN Zero(IF neg THEN -1 ELSE 1)
                  ELSE Num((IF neg THEN -1 ELSE 1) * n)

----------------------------------------------------------------------------
(* Option bags: JavaScript objects as functions from key to value.         *)

Get(o, k) == IF k \in DOMAIN o THEN o[k] ELSE Undefined
Truthy(o, k) == k \in DOMAIN o /\ o[k] = TRUE

Restrict(o, keys) == [k \in keys |-> o[k]]
EmptyObject == Restrict([x |-> 0], {})

\* The properties of `a`, then those of `b` written over them: what
\* { ...a, ...b } builds and what Object.assign(a, b) leaves in a.
Merge(a, b) ==
  [k \in DOMAIN a \cup DOMAIN b |-> IF k \in DOMAIN b THEN b[k] ELSE a[k]]

----------------------------------------------------------------------------
(* class CSV                                                               *)

Impls == {"assign", "spread"}

\* static DEFAULT_OPTIONS, of either variant
DEFAULT_OPTIONS_assign == [headers |-> TRUE, eol |-> <<"\n">>, seprator |-> <<",">>]
DEFAULT_OPTIONS_spread == [headers |-> TRUE, eol |-> <<"\n">>, separator |-> <<",">>]
DEFAULT_OPTIONS(i) == IF i = "assign" THEN DEFAULT_OPTIONS_assign ELSE DEFAULT_OPTIONS_spread

\* #makeTable(), of either variant: one splits a line on
\* this.options.seprator, the other on this.options.separator
makeTable_assign(text, o) ==
  LET lines == Split(text, Get(o, "eol"))
  IN [r \in 1..Len(lines) |-> Split(lines[r], Get(o, "seprator"))]
makeTable_spread(text, o) ==
  LET lines == Split(text, Get(o, "eol"))
  IN [r \in 1..Len(lines) |-> Split(lines[r], Get(o, "separator"))]
makeTable(i, text, o) ==
  IF i = "assign" THEN makeTable_assign(text, o) ELSE makeTable_spread(text, o)

\* Object.fromEntries over [header, row[index]] pairs, taken in order: a
\* later pair with the same key replaces the earlier one.
RECURSIVE FromEntries(_, _, _)
FromEntries(headers, row, n) ==
  IF n = 0 THEN EmptyObject
  ELSE Merge(FromEntries(headers, row, n - 1),
             [k \in {headers[n]} |-> IF n <= Len(row) THEN row[n] ELSE Undefined])

\* a #createRecord in which the first header of a name decides
createRecordFirstWins(headers, row) ==
  [h \in {headers[n] : n \in 1..Len(headers)} |->
     LET n == CHOOSE m \in 1..Len(headers) :
                headers[m] = h /\ \A j \in 1..(m - 1) : headers[j] # h
     IN IF n <= Len(row) THEN row[n] ELSE Undefined]

\* static #createRecord(headers, row)
createRecord(headers, row) == FromEntries(headers, row, Len(headers))

\* static #withHeaders(table), t being the table
withHeaders(t) ==
  [r \in 1..(Len(t) - 1) |-> createRecord(t[1], t[r + 1])]

\* parse()
parse(i, text, o) ==
  LET t == makeTable(i, text, o)
  IN IF Truthy(o, "headers") THEN withHeaders(t) ELSE t

\* static from(csv, options): the options the new instance is given.
\* One variant runs Object.assign(options || {}, CSV.DEFAULT_OPTIONS), the
\* other builds { ...CSV.DEFAULT_OPTIONS, ...options } with options = {}
\* when the argument is missing.
from_assign(given, o) == Merge(IF given THEN o ELSE EmptyObject, DEFAULT_OPTIONS_assign)
from_spread(given, o) == Merge(DEFAULT_OPTIONS_spread, IF given THEN o ELSE EmptyObject)
fromOptions(i, given, o) ==
  IF i = "assign" THEN from_assign(given, o) ELSE from_spread(given, o)

----------------------------------------------------------------------------
(* Inputs of the CSV specification.                                        *)

Alphabet == {"a", "b", ",", ";", "\n"}
Eols == {<<"\n">>, <<";", "\n">>}
Seps == {<<",">>, <<";">>, <<",", ",">>}

RECURSIVE SeqsUpTo(_, _)
SeqsUpTo(S, n) ==
  IF n = 0 THEN {<<>>}
  ELSE LET shorter == SeqsUpTo(S, n - 1)
       IN shorter \cup {Append(s, c) : s \in {t \in shorter : Len(t) = n - 1}, c \in S}

Texts == SeqsUpTo(Alphabet, MaxLen)

\* every configuration {headers, eol, separator}
FullBags == [headers : BOOLEAN, eol : Eols, separator : Seps]
\* every object holding some of the three keys
OptionBags == {Restrict(o, keys) : o \in FullBags, keys \in SUBSET {"headers", "eol", "separator"}}

NoCall == [via |-> "none", given |-> FALSE, opts |-> EmptyObject]

InitNoCSV ==
  /\ csv = <<>> /\ options = EmptyObject /\ table = <<>> /\ parsed = <<>> /\ call = NoCall

InitNoCalls ==
  /\ before = <<>> /\ lastOp = "none" /\ prevOp = "none" /\ maxLog = <<>>
  /\ printOpts = EmptyObject /\ output = <<>> /\ raised = FALSE
  /\ relRef = NaN /\ relOut = NaN

InitNoCollection == regions = <<>> /\ InitNoCalls

InitCSV ==
  /\ pc = "start"
  /\ impl \in Impls
  /\ InitNoCSV
  /\ InitNoCollection

collVars == <<regions, before, lastOp, prevOp, maxLog>>
viewVars == <<printOpts, output, raised>>
relVars == <<relRef, relOut>>
csvVars == <<csv, options, table, parsed, call>>

\* new CSV(text) and new CSV(text, options)
CSVNew ==
  /\ pc = "start"
  /\ \E text \in Texts, given \in BOOLEAN, o \in FullBags :
       /\ given \/ o = CHOOSE x \in FullBags : TRUE
       /\ csv' = text
       /\ options' = IF given THEN o ELSE DEFAULT_OPTIONS(impl)
       /\ call' = [via |-> "new", given |-> given, opts |-> IF given THEN o ELSE EmptyObject]
  /\ pc' = "made"
  /\ UNCHANGED <<impl, table, parsed, collVars, viewVars, relVars>>

\* CSV.from(text) and CSV.from(text, options)
CSVFrom ==
  /\ pc = "start"
  /\ \E text \in Texts, given \in BOOLEAN, o \in OptionBags :
       /\ given \/ o = EmptyObject
       /\ csv' = text
       /\ options' = fromOptions(impl, given, o)
       /\ call' = [via |-> "from", given |-> given, opts |-> o]
  /\ pc' = "made"
  /\ UNCHANGED <<impl, table, parsed, collVars, viewVars, relVars>>

\* csv.parse()
CSVParse ==
  /\ pc = "made"
  /\ table' = makeTable(impl, csv, options)
  /\ parsed' = parse(impl, csv, options)
  /\ pc' = "parsed"
  /\ UNCHANGED <<impl, csv, options, call, collVars, viewVars, relVars>>

NextCSV == CSVNew \/ CSVFrom \/ CSVParse

SpecCSV == InitCSV /\ [][NextCSV]_vars

----------------------------------------------------------------------------
(* class Region                                                            *)

CITY == <<"c", "i", "t", "y">>
POPULATION == <<"p", "o", "p", "u", "l", "a", "t", "i", "o", "n">>
AREA == <<"a", "r", "e", "a">>
DENSITY == <<"d", "e", "n", "s", "i", "t", "y">>
COUNTRY == <<"c", "o", "u", "n", "t", "r", "y">>

\* constructor(city, population, area, density, country)
Region(city, population, area, density, country) ==
  [city |-> city, population |-> population, area |-> area,
   density |-> density, country |-> country]

\* static from({ city, population, area, density, country })
RegionFrom(item) ==
  Region(Get(item, CITY), ParseInt(Get(item, POPULATION)), ParseInt(Get(item, AREA)),
         ParseInt(Get(item, DENSITY)), Get(item, COUNTRY))

\* densityRelativeTo(value): Math.round((this.density * 100) / value).
\* The quotient has the product of the two sign bits; a finite number
\* over a zero is an infinity, over an infinity a zero, and Math.round
\* keeps the sign of a quotient it rounds to zero.
densityRelativeTo(density, value) ==
  LET s == SignBit(density) * SignBit(value)
  IN IF IsNaN(density) \/ IsNaN(value) THEN NaN
     ELSE IF IsInf(density) THEN (IF IsInf(value) THEN NaN ELSE Inf(s))
     ELSE IF IsInf(value) THEN Zero(s)
     ELSE IF value.v = 0 THEN (IF density.v = 0 THEN NaN ELSE Inf(s))
     ELSE LET r == MathRound(density.v * 100, value.v)
          IN IF r = 0 THEN Zero(s) ELSE Num(r)

----------------------------------------------------------------------------
(* class RegionCollection                                                  *)

\* a pop() that drops the first element
popFirst(regs) == IF regs = <<>> THEN <<>> ELSE Tail(regs)

\* pop(): Array.prototype.pop drops the last element, if there is one
pop(regs) == IF regs = <<>> THEN <<>> ELSE SubSeq(regs, 1, Len(regs) - 1)

\* size()
size(regs) == Len(regs)

\* at(index): a negative index counts from the end, an index out of
\* range gives undefined.  Indices are 0-based.
at(regs, index) ==
  LET k == IF index < 0 THEN Len(regs) + index ELSE index
  IN IF k < 0 \/ k >= Len(regs) THEN Undefined ELSE regs[k + 1]

\* a maxDensity() that starts its maximum from 0
maxDensityFromZero(regs) ==
  Max2(Num(0), MathMax([i \in 1..Len(regs) |-> regs[i].density]))

\* maxDensity()
maxDensity(regs) == MathMax([i \in 1..Len(regs) |-> regs[i].density])

\* a comparator with a and b exchanged
compareAscending(a, b, m) ==
  Minus(densityRelativeTo(a.density, m), densityRelativeTo(b.density, m))

\* The comparator handed to sort, and its result as sort reads it: a NaN
\* result counts as 0.
compareFn(a, b, m) ==
  Minus(densityRelativeTo(b.density, m), densityRelativeTo(a.density, m))

SortCompare(a, b, m) ==
  LET v == compareFn(a, b, m) IN IF IsNaN(v) THEN 0 ELSE NumSign(v)

\* an insertion that is not stable: an element goes in front of the
\* elements it compares equal to
RECURSIVE InsertBeforeEqual(_, _, _)
InsertBeforeEqual(sorted, x, m) ==
  IF sorted # <<>> /\ SortCompare(sorted[Len(sorted)], x, m) >= 0
  THEN Append(InsertBeforeEqual(SubSeq(sorted, 1, Len(sorted) - 1), x, m), sorted[Len(sorted)])
  ELSE Append(sorted, x)

\* Array.prototype.sort is stable: an element goes behind every element
\* that does not compare greater than it.  On the densities modelled
\* here (integers, -0 and NaN) the comparator is a consistent ordering, so
\* this is the one result the language allows.
RECURSIVE Insert(_, _, _)
Insert(sorted, x, m) ==
  IF sorted # <<>> /\ SortCompare(sorted[Len(sorted)], x, m) > 0
  THEN Append(Insert(SubSeq(sorted, 1, Len(sorted) - 1), x, m), sorted[Len(sorted)])
  ELSE Append(sorted, x)

RECURSIVE ArraySort(_, _)
ArraySort(regs, m) ==
  IF regs = <<>> THEN <<>>
  ELSE Insert(ArraySort(SubSeq(regs, 1, Len(regs) - 1), m), regs[Len(regs)], m)

\* sortByRelativeDensity()
sortByRelativeDensity(regs) == ArraySort(regs, maxDensity(regs))

\* static from(data)
RegionCollectionFrom(data) == [i \in 1..Len(data) |-> RegionFrom(data[i])]

----------------------------------------------------------------------------
(* class RegionCollectionView                                              *)

CityWidth == 18
PopulationWidth == 10
AreaWidth == 8
DensityWidth == 8
CountryWidth == 18
RelativeWidth == 6

VIEW_DEFAULT_OPTIONS == [relativeDensity |-> TRUE]

\* static #makeDefaultFragments(region)
makeDefaultFragments(region) ==
  << PadEnd(region.city, CityWidth),
     PadStart(NumToString(region.population), PopulationWidth),
     PadStart(NumToString(region.area), AreaWidth),
     PadStart(NumToString(region.density), DensityWidth),
     PadStart(region.country, CountryWidth) >>

\* #makeRelativeDensityFragment(region)
makeRelativeDensityFragment(region, regs) ==
  PadStart(NumToString(densityRelativeTo(region.density, maxDensity(regs))), RelativeWidth)

\* #composeLine(region, options)
composeLine(region, o, regs) ==
  Join(IF Truthy(o, "relativeDensity")
       THEN Append(makeDefaultFragments(region), makeRelativeDensityFragment(region, regs))
       ELSE makeDefaultFragments(region), <<>>)

\* city.padEnd / country.padStart on undefined throws a TypeError
ComposeThrows(region) == region.city = Undefined \/ region.country = Undefined

\* print(options): the text handed to console.log
printText(regs, o) == Join([i \in 1..Len(regs) |-> composeLine(regs[i], o, regs)], <<"\n">>)

----------------------------------------------------------------------------
(* The calls, as steps.  Each takes the position it starts from and the    *)
(* position it leaves the script in.                                       *)

PopStep(from, to) ==
  /\ pc = from
  /\ before' = regions
  /\ regions' = pop(regions)
  /\ prevOp' = lastOp /\ lastOp' = "pop"
  /\ maxLog' = <<>>
  /\ pc' = to
  /\ UNCHANGED <<impl, csvVars, viewVars, relVars>>

SortStep(from, to) ==
  /\ pc = from
  /\ before' = regions
  /\ regions' = sortByRelativeDensity(regions)
  /\ prevOp' = lastOp /\ lastOp' = "sort"
  /\ maxLog' = <<>>
  /\ pc' = to
  /\ UNCHANGED <<impl, csvVars, viewVars, relVars>>

PrintStep(from, to) ==
  /\ pc = from
  /\ \E given \in BOOLEAN, rel \in BOOLEAN :
       LET o == IF given THEN [relativeDensity |-> rel] ELSE VIEW_DEFAULT_OPTIONS
       IN /\ given \/ rel
          /\ printOpts' = o
          /\ IF \E i \in 1..Len(regions) : ComposeThrows(regions[i])
             THEN raised' = TRUE /\ output' = output
             ELSE raised' = raised /\ output' = printText(regions, o)
  /\ prevOp' = lastOp /\ lastOp' = "print"
  /\ pc' = to
  /\ UNCHANGED <<impl, csvVars, regions, before, maxLog, relVars>>

----------------------------------------------------------------------------
(* SpecColl: a RegionCollection built from regions, then any calls of      *)
(* pop(), sortByRelativeDensity() and maxDensity().                        *)

DensityPool == {NaN, NegZero} \cup {Num(n) : n \in {-3, 0, 1, 2, 200, 201, 400}}

\* the i-th region is named by i, so that regions stay distinguishable
NamedRegion(i, d) == Region(NatToString(i), Num(1000), Num(100), d, <<"X">>)

Collections ==
  UNION { {[i \in 1..n |-> NamedRegion(i, ds[i])] : ds \in [1..n -> DensityPool]} :
          n \in 0..MaxRegions }

InitColl ==
  /\ pc = "coll"
  /\ impl \in Impls
  /\ InitNoCSV
  /\ regions \in Collections
  /\ InitNoCalls

Pop == PopStep("coll", "coll")

Sort == SortStep("coll", "coll")

\* maxDensity(), asked at most twice between two mutations
MaxDensity ==
  /\ pc = "coll"
  /\ Len(maxLog) < 2
  /\ maxLog' = Append(maxLog, maxDensity(regions))
  /\ prevOp' = lastOp /\ lastOp' = "maxDensity"
  /\ UNCHANGED <<pc, impl, csvVars, regions, before, viewVars, relVars>>

NextColl == Pop \/ Sort \/ MaxDensity

SpecColl == InitColl /\ [][NextColl]_vars

----------------------------------------------------------------------------
(* SpecRel: one Region, and densityRelativeTo(value) called on it.         *)

RelInts == (-MaxAbs..MaxAbs) \cup {200, 400}

\* the integers a density and a reference value are drawn from, -0 among them
RelValues == {NegZero} \cup {Num(n) : n \in RelInts}

InitRel ==
  /\ pc = "region"
  /\ impl \in Impls
  /\ InitNoCSV
  /\ \E d \in RelValues : regions = <<NamedRegion(1, d)>>
  /\ InitNoCalls

DensityRelativeTo ==
  /\ pc = "region"
  /\ \E v \in RelValues :
       /\ relRef' = v
       /\ relOut' = densityRelativeTo(regions[1].density, v)
  /\ pc' = "related"
  /\ UNCHANGED <<impl, csvVars, collVars, viewVars>>

NextRel == DensityRelativeTo

SpecRel == InitRel /\ [][NextRel]_vars

----------------------------------------------------------------------------
(* SpecView: a collection of regions with short and long values, printed.  *)

ViewCities == {Repeat("c", 3), Repeat("c", 19)}
ViewCountries == {Repeat("k", 7), Repeat("k", 19)}
\* area and density of a region: values that fit their columns, an area
\* of nine digits, and densities 0, -0 and -5, whose relative density
\* against a maximum of 0 is NaN and -Infinity, and against a maximum
\* of -0 NaN and Infinity
ViewNumbers ==
  {<<Num(784), Num(400)>>, <<Num(123456789), Num(0)>>, <<Num(784), Num(-5)>>,
   <<Num(784), NegZero>>}

ViewRegions ==
  {Region(c, Num(8537673), n[1], n[2], k) :
     c \in ViewCities, n \in ViewNumbers, k \in ViewCountries}

InitView ==
  /\ pc = "view"
  /\ impl \in Impls
  /\ InitNoCSV
  /\ regions \in UNION {[1..n -> ViewRegions] : n \in 0..MaxViewRegions}
  /\ InitNoCalls

ViewPrint == PrintStep("view", "printed")

NextView == ViewPrint

SpecView == InitView /\ [][NextView]_vars

----------------------------------------------------------------------------
(* SpecPipe: the script at the end of the file, on any text under the      *)
(* header row: CSV.from(data).parse(), RegionCollection.from, pop (or      *)
(* not), sortByRelativeDensity, print.                                     *)

HeaderRow == Join(<<CITY, POPULATION, AREA, DENSITY, COUNTRY>>, <<",">>)
BodyAlphabet == {"7", "0", "-", " ", "x", ",", "\n"}
PipeTexts == {HeaderRow \o <<"\n">> \o body : body \in SeqsUpTo(BodyAlphabet, MaxBody)}

InitPipe ==
  /\ pc = "start"
  /\ impl \in Impls
  /\ InitNoCSV
  /\ InitNoCollection

PipeFrom ==
  /\ pc = "start"
  /\ \E text \in PipeTexts :
       /\ csv' = text
       /\ options' = fromOptions(impl, FALSE, EmptyObject)
       /\ call' = [via |-> "from", given |-> FALSE, opts |-> EmptyObject]
  /\ pc' = "made"
  /\ UNCHANGED <<impl, table, parsed, collVars, viewVars, relVars>>

PipeCollect ==
  /\ pc = "parsed"
  /\ regions' = RegionCollectionFrom(parsed)
  /\ pc' = "built"
  /\ UNCHANGED <<impl, csvVars, before, lastOp, prevOp, maxLog, viewVars, relVars>>

PipePop == PopStep("built", "popped")

PipeSort == SortStep("built", "sorted") \/ SortStep("popped", "sorted")

PipePrint == PrintStep("sorted", "printed")

NextPipe == PipeFrom \/ CSVParse \/ PipeCollect \/ PipePop \/ PipeSort \/ PipePrint

SpecPipe == InitPipe /\ [][NextPipe]_vars

----------------------------------------------------------------------------
(* Claims about class CSV, checked under SpecCSV.                          *)

\* C2: after CSV.from(csv, options) every one of the keys headers, eol and
\* separator holds the caller's value when the caller supplied the key and
\* the default (TRUE, newline, comma) when the caller did not; without an
\* options argument all three hold the defaults.
C2_FromOverridesDefaults ==
  call.via = "from" =>
    LET defaults == [headers |-> TRUE, eol |-> <<"\n">>, separator |-> <<",">>]
    IN \A k \in {"headers", "eol", "separator"} :
         /\ k \in DOMAIN options
         /\ options[k] = IF k \in DOMAIN call.opts THEN call.opts[k] ELSE defaults[k]

\* C2, on the variant that merges with object spread alone: there the
\* statement of C2 holds.
C2_SpreadVariantOverrides == impl = "spread" => C2_FromOverridesDefaults

\* A table is the split of text on eol and sep: its rows, each joined
\* by sep, joined by eol, give back the text, and no row holds an eol and
\* no field holds a sep, so that every occurrence was cut at.
IsExactSplit(t, text, eol, sep) ==
  LET rows == [r \in 1..Len(t) |-> Join(t[r], sep)]
  IN /\ Len(t) >= 1
     /\ Join(rows, eol) = text
     /\ \A r \in 1..Len(t) :
          /\ Len(t[r]) >= 1
          /\ ~Contains(rows[r], eol)
          /\ \A f \in 1..Len(t[r]) : ~Contains(t[r][f], sep)

\* C3: for a configuration {headers, eol, separator} passed to the
\* constructor, parse() splits the text into rows on exactly the eol and
\* each row into fields on exactly the separator, and with headers = false
\* returns that table.
C3_SplitsOnConfiguredStrings ==
  (pc = "parsed" /\ call.via = "new" /\ call.given) =>
    /\ IsExactSplit(table, csv, call.opts.eol, call.opts.separator)
    /\ (~call.opts.headers => parsed = table)

\* C3, on the variant whose #makeTable reads options.separator: there the
\* statement of C3 holds.
C3_SpreadVariantSplits == impl = "spread" => C3_SplitsOnConfiguredStrings

FieldOrAbsent(row, n) == IF n <= Len(row) THEN row[n] ELSE Undefined

HeaderNames(t) == IF t = <<>> THEN {} ELSE {t[1][n] : n \in 1..Len(t[1])}

\* C4 as stated: with headers = true parse() returns one record per row
\* after row 0, and each record maps the i-th header to the i-th field of
\* its row (absent beyond the row's length), with no entry for a field
\* beyond the headers.
C4_RecordMapsEachHeaderToItsField ==
  (pc = "parsed" /\ Truthy(options, "headers")) =>
    /\ Len(parsed) = IF table = <<>> THEN 0 ELSE Len(table) - 1
    /\ \A r \in 1..Len(parsed) :
         /\ DOMAIN parsed[r] = HeaderNames(table)
         /\ \A n \in 1..Len(table[1]) :
              parsed[r][table[1][n]] = FieldOrAbsent(table[r + 1], n)

\* C4 amended: with headers = true parse() returns one record per row
\* after row 0; each record has one entry per header name and maps the
\* i-th header to the i-th field of its row (absent beyond the row's
\* length) unless the same name stands again later in row 0, in which
\* case the last header of that name decides; fields beyond the headers
\* are dropped.
C4_RecordMapsLastHeaderOfAName ==
  (pc = "parsed" /\ Truthy(options, "headers")) =>
    /\ Len(parsed) = IF table = <<>> THEN 0 ELSE Len(table) - 1
    /\ \A r \in 1..Len(parsed) :
         /\ DOMAIN parsed[r] = HeaderNames(table)
         /\ \A n \in 1..Len(table[1]) :
              (\A j \in (n + 1)..Len(table[1]) : table[1][j] # table[1][n]) =>
                parsed[r][table[1][n]] = FieldOrAbsent(table[r + 1], n)

\* C4 witness: a parse with headers whose row 0 holds two different names
\* and whose data row is shorter than row 0, so that a header maps to an
\* absent value.
C4_Witness ==
  /\ pc = "parsed" /\ Truthy(options, "headers")
  /\ Len(parsed) >= 1
  /\ Len(table[1]) = 2 /\ table[1][1] # table[1][2]
  /\ Len(table[2]) = 1
  /\ parsed[1][table[1][1]] = table[2][1]
  /\ parsed[1][table[1][2]] = Undefined

----------------------------------------------------------------------------
(* Claims about class RegionCollection, checked under SpecColl.            *)

Densities(regs) == {regs[i].density : i \in 1..Len(regs)}
AllIntegers(regs) == \A d \in Densities(regs) : IsInt(d)

\* the index of region r in regs; the regions of SpecColl are distinct
IndexIn(regs, r) == CHOOSE i \in 1..Len(regs) : regs[i] = r

\* the largest integer density of regs, for regs not empty
LargestDensity(regs) ==
  CHOOSE d \in Densities(regs) : \A e \in Densities(regs) : e.v <= d.v

\* the sort key: round(density * 100 / m)
KeyOf(r, m) == MathRound(r.density.v * 100, m)

\* C1: on a collection of integer densities whose maximum m is positive,
\* sortByRelativeDensity() leaves a permutation of the regions, ordered by
\* round(density * 100 / m) descending, regions of equal key in the order
\* they had before the call.
C1_SortIsStableDescendingPermutation ==
  (lastOp = "sort" /\ before # <<>> /\ AllIntegers(before)
     /\ LargestDensity(before).v > 0) =>
    LET m == LargestDensity(before).v
    IN /\ Len(regions) = Len(before)
       /\ {regions[i] : i \in 1..Len(regions)} = {before[i] : i \in 1..Len(before)}
       /\ \A i, j \in 1..Len(regions) :
            i < j =>
              /\ KeyOf(regions[i], m) >= KeyOf(regions[j], m)
              /\ KeyOf(regions[i], m) = KeyOf(regions[j], m) =>
                   IndexIn(before, regions[i]) < IndexIn(before, regions[j])

\* C1 witness: a sort that moved regions and left two regions of different
\* density but equal key in their former order.
C1_Witness ==
  /\ lastOp = "sort" /\ before # <<>> /\ AllIntegers(before)
  /\ LargestDensity(before).v > 0
  /\ regions # before
  /\ \E i, j \in 1..Len(regions) :
       /\ i < j
       /\ regions[i].density # regions[j].density
       /\ KeyOf(regions[i], LargestDensity(before).v) = KeyOf(regions[j], LargestDensity(before).v)

\* C5: after any pop() and sortByRelativeDensity() calls on a collection
\* of integer densities, every maxDensity() since the last mutation
\* returned the largest density of the regions now in the collection,
\* negative infinity for the empty collection, and two calls in a row
\* returned the same value.
C5_MaxDensityIsOfCurrentRegions ==
  AllIntegers(regions) =>
    /\ \A k \in 1..Len(maxLog) :
         IF regions = <<>> THEN maxLog[k] = NegInf
         ELSE /\ maxLog[k] \in Densities(regions)
              /\ \A d \in Densities(regions) : d.v <= maxLog[k].v
    /\ (Len(maxLog) = 2 => maxLog[1] = maxLog[2])

\* C5 witness: maxDensity() called twice after a pop() that removed the
\* one region of largest density, with regions left.
C5_Witness ==
  /\ Len(maxLog) = 2
  /\ AllIntegers(before) /\ regions # <<>>
  /\ Len(before) = Len(regions) + 1
  /\ before[Len(before)].density.v > maxLog[1].v

\* C6: pop() on a collection that is not empty reduces size() by one and
\* leaves every region but the former last at its index; pop() on an empty
\* collection raises nothing and leaves it empty.
C6_PopRemovesExactlyTheLast ==
  lastOp = "pop" =>
    /\ ~raised
    /\ IF before = <<>> THEN regions = <<>> /\ size(regions) = 0
       ELSE /\ size(regions) = size(before) - 1
            /\ \A i \in 0..(size(before) - 2) : at(regions, i) = at(before, i)
            /\ at(regions, size(before) - 1) = Undefined

\* C6 witness: a pop() on a collection of two or more regions.
C6_Witness == lastOp = "pop" /\ size(before) >= 2 /\ size(regions) = size(before) - 1

\* C10: a sortByRelativeDensity() that follows another one, with no
\* mutation in between, leaves the order as it found it.
C10_SecondSortChangesNothing ==
  (lastOp = "sort" /\ prevOp = "sort") => regions = before

\* C10 witness: two sorts in a row on three regions or more that hold two
\* regions of equal key and a region of another key.
C10_Witness ==
  /\ lastOp = "sort" /\ prevOp = "sort"
  /\ Len(regions) >= 3
  /\ \E i, j \in 1..Len(regions) :
       i # j /\ SortCompare(regions[i], regions[j], maxDensity(regions)) = 0
  /\ \E i, j \in 1..Len(regions) :
       SortCompare(regions[i], regions[j], maxDensity(regions)) # 0

----------------------------------------------------------------------------
(* Claim about Region.densityRelativeTo, checked under SpecRel.            *)

\* C7 as stated: for integer density d and integer reference v,
\* densityRelativeTo(v) returns an integer nearest to d * 100 / v (50 for
\* d = 200, v = 400); for v equal to 0 and d > 0 it returns positive
\* infinity and raises nothing.
C7_RelativeDensityIsNearestInteger ==
  pc = "related" =>
    LET d == regions[1].density.v
        v == relRef.v
    IN /\ ~raised
       /\ v # 0 => /\ IsInt(relOut)
                   /\ 2 * Abs(d * 100 - relOut.v * v) <= Abs(v)
       /\ (d = 200 /\ v = 400) => relOut = Num(50)
       /\ (v = 0 /\ d > 0) => relOut = PosInf

\* C7 amended: as stated, but for v equal to 0 and d > 0 the result is
\* positive infinity when v is the zero +0 and negative infinity when v
\* is the negative zero -0; neither raises.
C7_InfinityHasTheSignOfTheZero ==
  pc = "related" =>
    LET d == regions[1].density.v
        v == relRef.v
    IN /\ ~raised
       /\ v # 0 => /\ IsInt(relOut)
                   /\ 2 * Abs(d * 100 - relOut.v * v) <= Abs(v)
       /\ (d = 200 /\ v = 400) => relOut = Num(50)
       /\ (relRef = Num(0) /\ d > 0) => relOut = PosInf
       /\ (relRef = NegZero /\ d > 0) => relOut = NegInf

\* C7 witness: densityRelativeTo(0) on a region of positive density.
C7_Witness ==
  /\ pc = "related"
  /\ relRef = Num(0) /\ regions[1].density = Num(200) /\ relOut = PosInf

----------------------------------------------------------------------------
(* Claim about RegionCollectionView.print, checked under SpecView.         *)

\* the lines of a printed text; the empty text has none
LinesOf(text) == IF text = <<>> THEN <<>> ELSE Split(text, <<"\n">>)

Larger(a, b) == IF a >= b THEN a ELSE b

\* the length of the line of region r: each value takes its column's
\* width, or its own length when that is more
LineLength(r, o, regs) ==
  Larger(CityWidth, Len(r.city))
  + Larger(PopulationWidth, Len(NumToString(r.population)))
  + Larger(AreaWidth, Len(NumToString(r.area)))
  + Larger(DensityWidth, Len(NumToString(r.density)))
  + Larger(CountryWidth, Len(r.country))
  + (IF Truthy(o, "relativeDensity")
     THEN Larger(RelativeWidth, Len(NumToString(densityRelativeTo(r.density, maxDensity(regs)))))
     ELSE 0)

\* C9 as stated: print() produces one line per region, in collection
\* order, and every line is 62 characters long with relativeDensity
\* disabled and 68 with it enabled, whatever the lengths of the values.
C9_EveryLineHasTheFixedWidth ==
  (lastOp = "print" /\ ~raised) =>
    /\ Len(LinesOf(output)) = Len(regions)
    /\ \A i \in 1..Len(LinesOf(output)) :
         Len(LinesOf(output)[i]) =
           IF Truthy(printOpts, "relativeDensity") THEN 18 + 10 + 8 + 8 + 18 + 6
           ELSE 18 + 10 + 8 + 8 + 18

\* C9 amended: print() produces one line per region, in collection order;
\* a line is 62 characters long (68 with relativeDensity enabled) when
\* every value fits its column, and longer by the excess of every value
\* that does not fit, since padding never cuts a value.
C9_LineIsAsWideAsItsPaddedValues ==
  (lastOp = "print" /\ ~raised) =>
    /\ Len(LinesOf(output)) = Len(regions)
    /\ \A i \in 1..Len(regions) :
         LET line == LinesOf(output)[i]
         IN /\ Len(line) = LineLength(regions[i], printOpts, regions)
            /\ Len(line) >= IF Truthy(printOpts, "relativeDensity")
                            THEN 18 + 10 + 8 + 8 + 18 + 6 ELSE 18 + 10 + 8 + 8 + 18
            /\ SubSeq(line, 1, Len(regions[i].city)) = regions[i].city

\* C9 witness: a print with relativeDensity enabled of two regions, the
\* first with a city of 19 characters, whose line is 69 characters long,
\* the second with values that all fit, whose line is 68 characters long.
C9_Witness ==
  /\ lastOp = "print" /\ ~raised /\ Truthy(printOpts, "relativeDensity")
  /\ Len(regions) = 2
  /\ Len(regions[1].city) = 19 /\ Len(regions[2].city) = 3
  /\ Len(LinesOf(output)) = 2
  /\ Len(LinesOf(output)[1]) = 69
  /\ Len(LinesOf(output)[2]) = 68

----------------------------------------------------------------------------
(* Claim about the whole pipeline, checked under SpecPipe.                 *)

\* C8: on every text under the header row city,population,area,density,
\* country, with ragged rows and fields that are no numbers, the sequence
\* parse, RegionCollection.from, sortByRelativeDensity, print raises
\* nothing.
C8_PipelineNeverRaises == ~raised

\* C8, what does hold: print raises exactly when a data row whose region
\* is still in the collection has fewer than five fields, which leaves the
\* region's country undefined; fields that are no numbers raise nothing.
C8_RaisesExactlyOnShortRows ==
  pc = "printed" =>
    (raised <=> \E r \in 2..(Len(regions) + 1) : Len(table[r]) < Len(table[1]))

====
